---- MODULE Spec2Model ----
(***************************************************************************)
(* String Analyzer Service: the Cloudflare Worker's fetch handler (POST    *)
(* /strings, GET /strings/filter-by-natural-language, GET /strings/{v},    *)
(* DELETE /strings/{v}, GET /strings), the analyzer of utils.ts, the       *)
(* filter engine applyFilters and the interpreter                          *)
(* parseNaturalLanguageQuery, over a key-value store.                      *)
(*                                                                         *)
(* JavaScript strings are TLA+ strings, one character per code point.      *)
(* The letters, digits and punctuation of the modelled alphabet are one    *)
(* UTF-16 code unit and one UTF-8 byte each; the character written "#"     *)
(* stands for U+1F600, a code point outside the Basic Multilingual Plane:  *)
(* two UTF-16 code units (a surrogate pair) and four UTF-8 bytes.          *)
(***************************************************************************)
EXTENDS Integers, Sequences, FiniteSets, TLC

VARIABLES store, clock, request, response, calls, live, gone, inflight, analyzed

vars == <<store, clock, request, response, calls, live, gone, inflight, analyzed>>

(***************************************************************************)
(* Bounds of the model.                                                    *)
(***************************************************************************)
MaxRecords == 2
MaxClock == 1
MaxLength == 3

(***************************************************************************)
(* Strings.                                                                *)
(***************************************************************************)
LowerLetters == "abcdefghijklmnopqrstuvwxyz"
UpperLetters == "ABCDEFGHIJKLMNOPQRSTUVWXYZ"
Digits == "0123456789"
HexDigits == "0123456789ABCDEF"
WhiteSpace == {" ", "\t", "\n"}

\* the character at 1-based position i, "" outside the string
Chr(s, i) == IF i >= 1 /\ i <= Len(s) THEN SubSeq(s, i, i) ELSE ""

CharsOf(s) == {Chr(s, i) : i \in 1..Len(s)}

IndexIn(table, c) == CHOOSE i \in 1..Len(table) : Chr(table, i) = c

LowerSet == CharsOf(LowerLetters)
UpperSet == CharsOf(UpperLetters)
DigitSet == CharsOf(Digits)

IsLower(c) == c \in LowerSet
IsUpper(c) == c \in UpperSet
IsDigit(c) == c \in DigitSet

\* \w of a JavaScript regular expression: [A-Za-z0-9_]
IsWordChar(c) == IsLower(c) \/ IsUpper(c) \/ IsDigit(c) \/ c = "_"

\* s.substring(i - 1, i - 1 + Len(p)) === p
MatchesAt(s, p, i) ==
    /\ i >= 1
    /\ i + Len(p) - 1 <= Len(s)
    /\ SubSeq(s, i, i + Len(p) - 1) = p

StartsWith(s, p) == MatchesAt(s, p, 1)

\* String.prototype.includes
Includes(s, p) == \E i \in 1..(Len(s) - Len(p) + 1) : MatchesAt(s, p, i)

LowerChar(c) == IF IsUpper(c) THEN Chr(LowerLetters, IndexIn(UpperLetters, c)) ELSE c

RECURSIVE ToLowerCase(_)
ToLowerCase(s) ==
    IF Len(s) = 0 THEN "" ELSE LowerChar(Head(s)) \o ToLowerCase(Tail(s))

RECURSIVE TrimStart(_)
TrimStart(s) ==
    IF Len(s) > 0 /\ Head(s) \in WhiteSpace THEN TrimStart(Tail(s)) ELSE s

RECURSIVE TrimEnd(_)
TrimEnd(s) ==
    IF Len(s) > 0 /\ Chr(s, Len(s)) \in WhiteSpace
    THEN TrimEnd(SubSeq(s, 1, Len(s) - 1))
    ELSE s

\* String.prototype.trim
Trim(s) == TrimEnd(TrimStart(s))

RECURSIVE Reverse(_)
Reverse(s) == IF Len(s) = 0 THEN "" ELSE Reverse(Tail(s)) \o Head(s)

\* value.replace(/[\W_]/g, "")
RECURSIVE StripNonAlnum(_)
StripNonAlnum(s) ==
    IF Len(s) = 0 THEN ""
    ELSE (IF IsWordChar(Head(s)) /\ Head(s) # "_" THEN Head(s) ELSE "")
             \o StripNonAlnum(Tail(s))

\* the code point (= UTF-16 code unit = UTF-8 byte) of a character of the
\* Basic Latin block
Punctuation == <<" ", "!", "%", ",", "-", "/", "?", "_", "\t", "\n">>
PunctuationCodes == <<32, 33, 37, 44, 45, 47, 63, 95, 9, 10>>

CodeOf(c) ==
    IF IsLower(c) THEN 96 + IndexIn(LowerLetters, c)
    ELSE IF IsUpper(c) THEN 64 + IndexIn(UpperLetters, c)
    ELSE IF IsDigit(c) THEN 47 + IndexIn(Digits, c)
    ELSE PunctuationCodes[CHOOSE i \in 1..Len(Punctuation) : Punctuation[i] = c]

\* the characters outside the Basic Multilingual Plane
Astral == {"#"}

\* String.prototype.length counts UTF-16 code units: two for a surrogate pair
RECURSIVE StringLength(_)
StringLength(s) ==
    IF Len(s) = 0 THEN 0
    ELSE (IF Head(s) \in Astral THEN 2 ELSE 1) + StringLength(Tail(s))

CharOfCode(n) ==
    IF n >= 97 /\ n <= 122 THEN Chr(LowerLetters, n - 96)
    ELSE IF n >= 65 /\ n <= 90 THEN Chr(UpperLetters, n - 64)
    ELSE IF n >= 48 /\ n <= 57 THEN Chr(Digits, n - 47)
    ELSE Punctuation[CHOOSE i \in 1..Len(Punctuation) : PunctuationCodes[i] = n]

(***************************************************************************)
(* The requests the clients send: the values of the POST bodies, the       *)
(* values named in the path of GET and DELETE, the query parameters of     *)
(* GET /strings and the queries of the natural-language route.             *)
(***************************************************************************)
BodyValues == {"a", " a", "ab", "Ab", "a b", "", " "}

PathValues == {"a", " a", "ab", "Ab", "a b", "", "filter-by-natural-language"}

EmptyObject == [name \in {} |-> TRUE]

NoParams == EmptyObject

NoBody == [json |-> FALSE, type |-> "undefined", value |-> ""]

Bodies ==
    {[json |-> TRUE, type |-> "string", value |-> v] : v \in BodyValues}
        \cup {NoBody, [json |-> TRUE, type |-> "undefined", value |-> ""],
              [json |-> TRUE, type |-> "number", value |-> ""]}

FilterNames ==
    {"is_palindrome", "min_length", "max_length", "word_count", "contains_character"}

\* values of the type of the parameter, and values outside it
WellTyped(name) ==
    CASE name = "is_palindrome" -> {"true", "false"}
      [] name = "min_length" -> {"2"}
      [] name = "max_length" -> {"2"}
      [] name = "word_count" -> {"1"}
      [] name = "contains_character" -> {"a", "A"}

IllTyped(name) ==
    CASE name = "is_palindrome" -> {"yes"}
      [] name = "min_length" -> {"x"}
      [] name = "max_length" -> {""}
      [] name = "word_count" -> {"one"}
      [] name = "contains_character" -> {"ab"}

\* the values a parameter takes: of its type, or outside it
ValuesOf(name, typed) == IF typed THEN WellTyped(name) ELSE IllTyped(name)

\* the parameter sets over the names N, with values of the type or outside it
ParamsOver(N, typed) ==
    {params \in [N -> UNION {ValuesOf(n, typed) : n \in N}] :
        \A n \in N : params[n] \in ValuesOf(n, typed)}

\* a || b on strings
OrElse(a, b) == IF a = "" THEN b ELSE a

\* f extended by name |-> v
WithKey(f, name, v) ==
    [k \in DOMAIN f \cup {name} |-> IF k = name THEN v ELSE f[k]]

\* up to two well-typed filters, possibly with a parameter of an unknown
\* name, and single filters with a value outside the type
WellTypedParamSets ==
    UNION {ParamsOver(N, TRUE) : N \in {M \in SUBSET FilterNames : Cardinality(M) <= 2}}

ParamSets ==
    WellTypedParamSets
        \cup {WithKey(params, "sort", "asc") :
                 params \in {p \in WellTypedParamSets : Cardinality(DOMAIN p) <= 1}}
        \cup UNION {ParamsOver({n}, FALSE) : n \in FilterNames}

Queries ==
    {"",
     "the quick brown fox",
     "11 word",
     "single words",
     "containing 5",
     "all single word palindromic strings",
     "One Word",
     "Palindromes",
     "palindromic strings that contain the first vowel",
     "strings longer than 10 characters",
     "strings containing the letter z",
     "strings longer than 2 characters",
     "longer than 01 character",
     "strings containing the letter a",
     "contains the letter B",
     "containing a",
     "containing the b",
     "containing the 5",
     "containing b contains the letter a",
     "single word strings longer than 1 characters containing the letter b"}

(***************************************************************************)
(* utils.ts: the analyzer.                                                 *)
(***************************************************************************)

\* TextEncoder.encode: the UTF-8 bytes of the string, four for U+1F600
RECURSIVE UTF8Encode(_)
UTF8Encode(value) ==
    IF Len(value) = 0 THEN <<>>
    ELSE (IF Head(value) \in Astral THEN <<240, 159, 152, 128>>
          ELSE <<CodeOf(Head(value))>>) \o UTF8Encode(Tail(value))

\* SHA-256 as a digest of the byte sequence.  The hex rendering is a fixed
\* width injective rendering of the digest, so the digest itself stands for
\* the hex string.  DigestInjective below checks that the digest has no
\* collision on the strings the model hashes.
RECURSIVE DigestFrom(_, _)
DigestFrom(bytes, h) ==
    IF Len(bytes) = 0 THEN h
    ELSE DigestFrom(Tail(bytes), (h * 257 + Head(bytes) + 1) % 8355967)

Sha256Hex(value) == DigestFrom(UTF8Encode(value), 0)

\* the strings the requests of the model hash, each hashed once
HashedStrings == {TrimEnd(TrimStart(v)) : v \in BodyValues} \cup PathValues

Sha256Table == [v \in HashedStrings |-> Sha256Hex(v)]

computeSHA256(value) ==
    IF value \in HashedStrings THEN Sha256Table[value] ELSE Sha256Hex(value)

isPalindrome(value) ==
    LET cleaned == ToLowerCase(StripNonAlnum(value))
    IN  cleaned = Reverse(cleaned)

\* new Set(value).size: the iterator of a string yields code points
countUniqueChars(value) == Cardinality(CharsOf(value))

\* s.split(/\s+/): cur is the segment being read
RECURSIVE SplitWhitespace(_, _)
SplitWhitespace(s, cur) ==
    IF Len(s) = 0 THEN <<cur>>
    ELSE IF Head(s) \in WhiteSpace
         THEN <<cur>> \o SplitWhitespace(TrimStart(s), "")
         ELSE SplitWhitespace(Tail(s), cur \o Head(s))

countWords(value) ==
    LET words == SplitWhitespace(Trim(value), "")
    IN  IF Trim(value) = "" THEN 0 ELSE Len(words)

\* for (const char of value): one count per code point
getCharFrequency(value) ==
    [c \in CharsOf(value) |-> Cardinality({i \in 1..Len(value) : Chr(value, i) = c})]

\* Analysis with the digest taken of the case-folded value
AnalysisHashLowered(value) ==
    [length |-> StringLength(value),
     is_palindrome |-> isPalindrome(value),
     unique_characters |-> countUniqueChars(value),
     word_count |-> countWords(value),
     sha256_hash |-> Sha256Hex(ToLowerCase(value)),
     character_frequency_map |-> getCharFrequency(value)]

Analysis(value) ==
    [length |-> StringLength(value),
     is_palindrome |-> isPalindrome(value),
     unique_characters |-> countUniqueChars(value),
     word_count |-> countWords(value),
     sha256_hash |-> computeSHA256(value),
     character_frequency_map |-> getCharFrequency(value)]

\* the analysis of each string the requests of the model submit, made once
AnalysisTable == [v \in HashedStrings |-> Analysis(v)]

analyzeString(value) ==
    IF value \in HashedStrings THEN AnalysisTable[value] ELSE Analysis(value)

(***************************************************************************)
(* JSON text of a record, and the key-value store STRING_STORE.            *)
(***************************************************************************)

\* JSON.stringify(record): the members in the order of the object literal
JSONStringify(record) ==
    << <<"id", record.id>>,
       <<"value", record.value>>,
       <<"properties", record.properties>>,
       <<"created_at", record.created_at>> >>

Member(text, name) ==
    text[CHOOSE i \in 1..Len(text) : text[i][1] = name][2]

\* JSON.parse(recordStr)
JSONParse(text) ==
    [id |-> Member(text, "id"),
     value |-> Member(text, "value"),
     properties |-> Member(text, "properties"),
     created_at |-> Member(text, "created_at")]

\* null, as returned by KVNamespace.get for an absent key
Null == <<>>

KVGet(st, key) == IF key \in DOMAIN st THEN st[key] ELSE Null

KVPut(st, key, text) ==
    [k \in DOMAIN st \cup {key} |-> IF k = key THEN text ELSE st[k]]

KVDelete(st, key) == [k \in DOMAIN st \ {key} |-> st[k]]

\* KVNamespace.list(): the key names in lexicographic order of the
\* fixed-width hex names, which is the numeric order of the digests
RECURSIVE SortedKeys(_)
SortedKeys(keys) ==
    IF keys = {} THEN <<>>
    ELSE LET least == CHOOSE k \in keys : \A j \in keys : k <= j
         IN  <<least>> \o SortedKeys(keys \ {least})

KVList(st) == SortedKeys(DOMAIN st)

\* the calls a request makes on the store and on the filter engine
Call(op, key) == [op |-> op, key |-> key]

(***************************************************************************)
(* applyFilters.  A URLSearchParams is a function from the names present   *)
(* to their string values.  A number is <<n>>, and NaN is <<>>.            *)
(***************************************************************************)
NaN == <<>>

Num(n) == <<n>>

RECURSIVE DigitPrefix(_)
DigitPrefix(s) ==
    IF Len(s) > 0 /\ IsDigit(Head(s)) THEN Head(s) \o DigitPrefix(Tail(s)) ELSE ""

RECURSIVE DecimalValue(_, _)
DecimalValue(digits, acc) ==
    IF Len(digits) = 0 THEN acc
    ELSE DecimalValue(Tail(digits), acc * 10 + (IndexIn(Digits, Head(digits)) - 1))

\* parseInt(s, 10): leading white space, an optional sign, then the longest
\* run of digits; NaN when there is no digit
parseInt(s) ==
    LET t == TrimStart(s)
        signed == Len(t) > 0 /\ Head(t) \in {"+", "-"}
        digits == DigitPrefix(IF signed THEN Tail(t) ELSE t)
    IN  IF digits = "" THEN NaN
        ELSE IF signed /\ Head(t) = "-" THEN Num(0 - DecimalValue(digits, 0))
        ELSE Num(DecimalValue(digits, 0))

\* x >= y, x <= y and x === y on numbers, false when y is NaN
NumGE(x, y) == y # NaN /\ x >= y[1]
NumLE(x, y) == y # NaN /\ x <= y[1]
NumEQ(x, y) == y # NaN /\ x = y[1]

\* r.value.includes(ch)
ContainsCharacter(r, ch) == Includes(r.value, ch)

FilterPalindrome(records, params) ==
    IF "is_palindrome" \in DOMAIN params
    THEN LET boolVal == (params["is_palindrome"] = "true")
             Keep(r) == (r.properties.is_palindrome = boolVal)
         IN  SelectSeq(records, Keep)
    ELSE records

FilterMinLength(records, params) ==
    IF "min_length" \in DOMAIN params
    THEN LET min == parseInt(OrElse(params["min_length"], "0"))
             Keep(r) == NumGE(r.properties.length, min)
         IN  SelectSeq(records, Keep)
    ELSE records

FilterMaxLength(records, params) ==
    IF "max_length" \in DOMAIN params
    THEN LET max == parseInt(OrElse(params["max_length"], "99999"))
             Keep(r) == NumLE(r.properties.length, max)
         IN  SelectSeq(records, Keep)
    ELSE records

FilterWordCount(records, params) ==
    IF "word_count" \in DOMAIN params
    THEN LET wc == parseInt(OrElse(params["word_count"], "0"))
             Keep(r) == NumEQ(r.properties.word_count, wc)
         IN  SelectSeq(records, Keep)
    ELSE records

FilterContains(records, params) ==
    IF "contains_character" \in DOMAIN params
    THEN LET ch == OrElse(params["contains_character"], "")
             Keep(r) == ContainsCharacter(r, ch)
         IN  SelectSeq(records, Keep)
    ELSE records

\* the echo of the filters applied, with the values as coerced
AppliedValue(name, params) ==
    CASE name = "is_palindrome" -> (params[name] = "true")
      [] name = "min_length" -> parseInt(OrElse(params[name], "0"))
      [] name = "max_length" -> parseInt(OrElse(params[name], "99999"))
      [] name = "word_count" -> parseInt(OrElse(params[name], "0"))
      [] name = "contains_character" -> OrElse(params[name], "")

applyFilters(records, params) ==
    [data |-> FilterContains(
                  FilterWordCount(
                      FilterMaxLength(
                          FilterMinLength(
                              FilterPalindrome(records, params), params), params), params), params),
     applied |-> [name \in DOMAIN params \cap FilterNames |-> AppliedValue(name, params)]]

(***************************************************************************)
(* parseNaturalLanguageQuery.  A regular-expression match is <<capture>>,  *)
(* or Null when the expression does not match.  The interpreter returns    *)
(* <<out>>, or Null.                                                       *)
(***************************************************************************)
LeastOf(S) == CHOOSE i \in S : \A j \in S : i <= j

\* \b between the characters at positions k and k + 1
WordBoundary(s, k) == IsWordChar(Chr(s, k)) # IsWordChar(Chr(s, k + 1))

SingleWordPhrases == {"single word", "one word", "1 word"}

\* /\b(single word|one word|\b1 word)\b/.test(lowered)
singleWord(lowered) ==
    \E i \in 1..Len(lowered) :
        /\ WordBoundary(lowered, i - 1)
        /\ \E phrase \in SingleWordPhrases :
              /\ MatchesAt(lowered, phrase, i)
              /\ WordBoundary(lowered, i - 1 + Len(phrase))

PalindromeWords == {"palindromic", "palindrome", "palindromic strings", "palindromes"}

\* /(palindromic|palindrome|palindromic strings|palindromes)/.test(lowered)
palindromic(lowered) == \E word \in PalindromeWords : Includes(lowered, word)

\* /longer than (\d+) characters?/ matched at position i: the digits read
LongerAt(lowered, i) ==
    LET from == i + Len("longer than ")
        digits == DigitPrefix(SubSeq(lowered, from, Len(lowered)))
    IN  IF /\ MatchesAt(lowered, "longer than ", i)
           /\ digits # ""
           /\ MatchesAt(lowered, " character", from + Len(digits))
        THEN <<digits>>
        ELSE Null

longerMatch(lowered) ==
    LET at == {i \in 1..Len(lowered) : LongerAt(lowered, i) # Null}
    IN  IF at = {} THEN Null ELSE LongerAt(lowered, LeastOf(at))

\* /contain(?:ing|s)? the letter ([a-z])/ matched at position i: the letter
ContainsLetterAt(lowered, i) ==
    LET ends == {e \in {"ing", "s", ""} :
                    /\ MatchesAt(lowered, "contain" \o e \o " the letter ", i)
                    /\ IsLower(Chr(lowered, i + Len("contain" \o e \o " the letter ")))}
    IN  IF ends = {} THEN Null
        ELSE LET e == CHOOSE e \in ends : TRUE
             IN  <<Chr(lowered, i + Len("contain" \o e \o " the letter "))>>

containsLetterMatch(lowered) ==
    LET at == {i \in 1..Len(lowered) : ContainsLetterAt(lowered, i) # Null}
    IN  IF at = {} THEN Null ELSE ContainsLetterAt(lowered, LeastOf(at))

\* /containing (?:the )?([a-z])/ matched at position i: "the " is taken when
\* a letter follows it, and given back otherwise
SimpleContainsAt(lowered, i) ==
    LET from == i + Len("containing ")
    IN  IF ~MatchesAt(lowered, "containing ", i) THEN Null
        ELSE IF MatchesAt(lowered, "the ", from) /\ IsLower(Chr(lowered, from + Len("the ")))
             THEN <<Chr(lowered, from + Len("the "))>>
        ELSE IF IsLower(Chr(lowered, from)) THEN <<Chr(lowered, from)>>
        ELSE Null

simpleContains(lowered) ==
    LET at == {i \in 1..Len(lowered) : SimpleContainsAt(lowered, i) # Null}
    IN  IF at = {} THEN Null ELSE SimpleContainsAt(lowered, LeastOf(at))

\* LongerThan with the bound taken as inclusive
LongerThanInclusive(n) == n

\* out.min_length = n + 1
LongerThan(n) == n + 1

SetWordCount(out, lowered) ==
    IF singleWord(lowered) THEN WithKey(out, "word_count", 1) ELSE out

SetPalindrome(out, lowered) ==
    IF palindromic(lowered) THEN WithKey(out, "is_palindrome", TRUE) ELSE out

\* SetMinLength with a rule that also emits max_length = N
SetMinAndMaxLength(out, lowered) ==
    LET m == longerMatch(lowered)
    IN  IF m # Null /\ parseInt(m[1]) # NaN
        THEN WithKey(WithKey(out, "min_length", LongerThan(parseInt(m[1])[1])),
                     "max_length", parseInt(m[1])[1])
        ELSE out

SetMinLength(out, lowered) ==
    LET m == longerMatch(lowered)
    IN  IF m # Null /\ parseInt(m[1]) # NaN
        THEN WithKey(out, "min_length", LongerThan(parseInt(m[1])[1]))
        ELSE out

SetContains(out, lowered) ==
    LET strict == containsLetterMatch(lowered)
        loose == simpleContains(lowered)
    IN  IF strict # Null THEN WithKey(out, "contains_character", strict[1])
        ELSE IF loose # Null THEN WithKey(out, "contains_character", loose[1])
        ELSE out

\* OutOrNull without the check for an empty object
OutAlways(out) == <<out>>

\* if (Object.keys(out).length === 0) return null; return out;
OutOrNull(out) == IF DOMAIN out = {} THEN Null ELSE <<out>>

Interpret(q) ==
    LET lowered == Trim(ToLowerCase(q))
    IN  OutOrNull(
            SetContains(
                SetMinLength(
                    SetPalindrome(
                        SetWordCount(EmptyObject, lowered), lowered), lowered), lowered))

\* the interpretation of each query of the model, made once
InterpretTable == [q \in Queries |-> Interpret(q)]

parseNaturalLanguageQuery(q) ==
    IF q \in Queries THEN InterpretTable[q] ELSE Interpret(q)

(***************************************************************************)
(* URLs.                                                                   *)
(***************************************************************************)
UnreservedMarks == {"-", "_", ".", "!", "~", "*", "'", "(", ")"}

Hex2(n) == Chr(HexDigits, (n \div 16) + 1) \o Chr(HexDigits, (n % 16) + 1)

LowerHexDigits == ToLowerCase(HexDigits)
HexSet == CharsOf(HexDigits) \cup CharsOf(LowerHexDigits)

IsHexDigit(c) == c \in HexSet

HexValue(c) == IndexIn(LowerHexDigits, LowerChar(c)) - 1

\* encodeURIComponent, as the client applies it to the value of the path
RECURSIVE encodeURIComponent(_)
encodeURIComponent(v) ==
    IF Len(v) = 0 THEN ""
    ELSE (IF (IsWordChar(Head(v)) /\ Head(v) # "_") \/ Head(v) \in UnreservedMarks
          THEN Head(v)
          ELSE "%" \o Hex2(CodeOf(Head(v))))
             \o encodeURIComponent(Tail(v))

\* decodeURIComponent(seg): <<the decoded string>>, or Null when it throws
\* URIError on a malformed escape
RECURSIVE decodeURIComponent(_)
decodeURIComponent(seg) ==
    IF Len(seg) = 0 THEN <<"">>
    ELSE IF Head(seg) = "%"
         THEN IF IsHexDigit(Chr(seg, 2)) /\ IsHexDigit(Chr(seg, 3))
              THEN LET rest == decodeURIComponent(SubSeq(seg, 4, Len(seg)))
                       byte == 16 * HexValue(Chr(seg, 2)) + HexValue(Chr(seg, 3))
                   IN  IF rest = Null THEN Null ELSE <<CharOfCode(byte) \o rest[1]>>
              ELSE Null
         ELSE LET rest == decodeURIComponent(Tail(seg))
              IN  IF rest = Null THEN Null ELSE <<Head(seg) \o rest[1]>>

\* url.pathname.replace(/\/+$/, "")
RECURSIVE StripTrailingSlashes(_)
StripTrailingSlashes(pathname) ==
    IF Len(pathname) > 0 /\ Chr(pathname, Len(pathname)) = "/"
    THEN StripTrailingSlashes(SubSeq(pathname, 1, Len(pathname) - 1))
    ELSE pathname

\* path.split("/"): cur is the part being read
RECURSIVE SplitSlash(_, _)
SplitSlash(path, cur) ==
    IF Len(path) = 0 THEN <<cur>>
    ELSE IF Head(path) = "/" THEN <<cur>> \o SplitSlash(Tail(path), "")
    ELSE SplitSlash(Tail(path), cur \o Head(path))

(***************************************************************************)
(* Responses.                                                              *)
(***************************************************************************)
Response(status, kind, error, data, filters, original) ==
    [status |-> status, kind |-> kind, error |-> error, data |-> data,
     count |-> Len(data), filters |-> filters, original |-> original]

\* json({ error }, status)
ErrorResponse(error, status) == Response(status, "error", error, <<>>, EmptyObject, "")

\* json(record, status)
RecordResponse(record, status) == Response(status, "record", "", <<record>>, EmptyObject, "")

\* json({ data, count, filters_applied | interpreted_query })
ListResponse(data, filters, original) == Response(200, "list", "", data, filters, original)

Outcome(st, resp, made) == [store |-> st, response |-> resp, calls |-> made]

(***************************************************************************)
(* The routes of fetch.  Each route is written as the chain of its         *)
(* statements: an operator per statement that binds a value, taking the    *)
(* values bound so far as parameters.                                      *)
(***************************************************************************)

\* AlreadyExists with the check left out
NeverExists(existing) == FALSE

\* if (existing)
AlreadyExists(existing) == existing # Null

\* NewRecord with the time of creation made part of the key
NewRecordKeyedByTime(id, value, analysis, now) ==
    [id |-> id + now, value |-> value, properties |-> analysis, created_at |-> now]

\* const record = { id, value, properties: analysis, created_at }
NewRecord(id, value, analysis, now) ==
    [id |-> id, value |-> value, properties |-> analysis, created_at |-> now]

\* const value = (body.value as string).trim()
SubmittedValue(body) == Trim(body.value)

\* await env.STRING_STORE.put(id, JSON.stringify(record)); return json(record, 201)
PostPut(record, st) ==
    Outcome(KVPut(st, record.id, JSONStringify(record)),
            RecordResponse(record, 201),
            <<Call("get", record.id), Call("put", record.id)>>)

\* const existing = await env.STRING_STORE.get(id); if (existing) return 409
PostExisting(value, analysis, existing, st, now) ==
    IF AlreadyExists(existing)
    THEN Outcome(st, ErrorResponse("String already exists", 409),
                 <<Call("get", analysis.sha256_hash)>>)
    ELSE PostPut(NewRecord(analysis.sha256_hash, value, analysis, now), st)

\* const analysis = await analyzeString(value); const id = analysis.sha256_hash
PostAnalysed(value, analysis, st, now) ==
    PostExisting(value, analysis, KVGet(st, analysis.sha256_hash), st, now)

\* if (!value) return 400
PostValue(value, st, now) ==
    IF value = ""
    THEN Outcome(st, ErrorResponse("Empty string not allowed", 400), <<>>)
    ELSE PostAnalysed(value, analyzeString(value), st, now)

\* POST /strings
PostStrings(body, st, now) ==
    IF ~body.json \/ body.type # "string"
    THEN Outcome(st, ErrorResponse("Invalid or missing 'value' field", 400), <<>>)
    ELSE PostValue(SubmittedValue(body), st, now)

\* LoadRecord without the test of recordStr: a missing key gives an entry
LoadRecordUnchecked(recordStr) ==
    IF recordStr = Null
    THEN <<[id |-> 0, value |-> "", properties |-> Analysis(""), created_at |-> 0]>>
    ELSE <<JSONParse(recordStr)>>

\* for (const key of list.keys) { get; if (!recordStr) continue; push(parse) }
LoadRecord(recordStr) == IF recordStr = Null THEN <<>> ELSE <<JSONParse(recordStr)>>

RECURSIVE LoadRecords(_, _)
LoadRecords(st, keys) ==
    IF Len(keys) = 0 THEN <<>>
    ELSE LoadRecord(KVGet(st, Head(keys))) \o LoadRecords(st, Tail(keys))

LoadCalls(keys) == <<Call("list", 0)>> \o [i \in 1..Len(keys) |-> Call("get", keys[i])]

RECURSIVE Decimal(_)
Decimal(n) ==
    IF n < 10 THEN Chr(Digits, n + 1)
    ELSE Decimal(n \div 10) \o Chr(Digits, (n % 10) + 1)

\* String(v) of a value of the parsed filters; the name fixes its type
StringOf(name, v) ==
    CASE name = "is_palindrome" -> (IF v THEN "true" ELSE "false")
      [] name = "contains_character" -> v
      [] OTHER -> IF v < 0 THEN "-" \o Decimal(0 - v) ELSE Decimal(v)

\* ToSearchParams passing on the string values only
ToSearchParamsStringsOnly(parsed) ==
    [name \in DOMAIN parsed \cap {"contains_character"} |-> parsed[name]]

\* Object.entries(parsed).forEach(([k, v]) => params.set(k, String(v)))
ToSearchParams(parsed) == [name \in DOMAIN parsed |-> StringOf(name, parsed[name])]

\* parsed.min_length > parsed.max_length, both defined
Conflicting(parsed) ==
    /\ "min_length" \in DOMAIN parsed
    /\ "max_length" \in DOMAIN parsed
    /\ parsed["min_length"] > parsed["max_length"]

\* const filters = applyFilters(results, params); return json({ ... })
NaturalLanguageFiltered(q, parsed, keys, filters, st) ==
    Outcome(st, ListResponse(filters.data, parsed, q),
            LoadCalls(keys) \o <<Call("applyFilters", 0)>>)

\* const list = await env.STRING_STORE.list(); ... applyFilters(results, params)
NaturalLanguageListed(q, parsed, keys, st) ==
    NaturalLanguageFiltered(
        q, parsed, keys, applyFilters(LoadRecords(st, keys), ToSearchParams(parsed)), st)

\* const parsed = parseNaturalLanguageQuery(q); if (!parsed) return 400
NaturalLanguageParsed(q, parsed, st) ==
    IF parsed = Null
    THEN Outcome(st, ErrorResponse("Unable to parse natural language query", 400), <<>>)
    ELSE IF Conflicting(parsed[1])
    THEN Outcome(st, ErrorResponse("Conflicting filters", 422), <<>>)
    ELSE NaturalLanguageListed(q, parsed[1], KVList(st), st)

\* const q = url.searchParams.get("query") || ""; if (!q) return 400
NaturalLanguageQuery(q, st) ==
    IF q = ""
    THEN Outcome(st, ErrorResponse("Missing 'query' parameter", 400), <<>>)
    ELSE NaturalLanguageParsed(q, parseNaturalLanguageQuery(q), st)

\* GET /strings/filter-by-natural-language
FilterByNaturalLanguage(params, st) ==
    NaturalLanguageQuery(IF "query" \in DOMAIN params THEN params["query"] ELSE "", st)

\* const data = await env.STRING_STORE.get(hash); if (!data) return 404
GetFound(hash, data, st) ==
    IF data = Null
    THEN Outcome(st, ErrorResponse("String not found", 404), <<Call("get", hash)>>)
    ELSE Outcome(st, RecordResponse(JSONParse(data), 200), <<Call("get", hash)>>)

GetHashed(hash, st) == GetFound(hash, KVGet(st, hash), st)

\* const value = decodeURIComponent(seg); a URIError is caught: 500
GetDecoded(value, st) ==
    IF value = Null
    THEN Outcome(st, ErrorResponse("URI malformed", 500), <<>>)
    ELSE GetHashed(computeSHA256(value[1]), st)

\* GET /strings/{value}
GetString(seg, st) == GetDecoded(decodeURIComponent(seg), st)

\* const data = await env.STRING_STORE.get(hash); if (!data) return 404
DeleteFound(hash, data, st) ==
    IF data = Null
    THEN Outcome(st, ErrorResponse("String not found", 404), <<Call("get", hash)>>)
    ELSE Outcome(KVDelete(st, hash),
                 Response(204, "empty", "", <<>>, EmptyObject, ""),
                 <<Call("get", hash), Call("delete", hash)>>)

DeleteHashed(hash, st) == DeleteFound(hash, KVGet(st, hash), st)

DeleteDecoded(value, st) ==
    IF value = Null
    THEN Outcome(st, ErrorResponse("URI malformed", 500), <<>>)
    ELSE DeleteHashed(computeSHA256(value[1]), st)

\* DELETE /strings/{value}
DeleteString(seg, st) == DeleteDecoded(decodeURIComponent(seg), st)

ListFiltered(keys, filters, st) ==
    Outcome(st, ListResponse(filters.data, filters.applied, ""),
            LoadCalls(keys) \o <<Call("applyFilters", 0)>>)

ListListed(params, keys, st) ==
    ListFiltered(keys, applyFilters(LoadRecords(st, keys), params), st)

\* GET /strings
GetStrings(params, st) == ListListed(params, KVList(st), st)

DefaultRoute(st) == Outcome(st, Response(200, "text", "", <<>>, EmptyObject, ""), <<>>)

\* the routes in the order the handler tries them
Route(method, path, parts, params, body, st, now) ==
    IF method = "POST" /\ path = "/strings"
    THEN PostStrings(body, st, now)
    ELSE IF method = "GET" /\ StartsWith(path, "/strings/filter-by-natural-language")
    THEN FilterByNaturalLanguage(params, st)
    ELSE IF method = "GET" /\ StartsWith(path, "/strings/") /\ Len(parts) = 3
    THEN GetString(parts[3], st)
    ELSE IF method = "DELETE" /\ StartsWith(path, "/strings/") /\ Len(parts) = 3
    THEN DeleteString(parts[3], st)
    ELSE IF method = "GET" /\ path = "/strings"
    THEN GetStrings(params, st)
    ELSE DefaultRoute(st)

RoutePath(method, path, params, body, st, now) ==
    Route(method, path, SplitSlash(path, ""), params, body, st, now)

\* fetch(request, env)
Fetch(method, pathname, params, body, st, now) ==
    RoutePath(method, StripTrailingSlashes(pathname), params, body, st, now)

(***************************************************************************)
(* State.  store is STRING_STORE: key name -> JSON text.  clock is the     *)
(* time new Date() reads.  request, response and calls are the request     *)
(* being served, its response and the calls it made.  live and gone        *)
(* record the history of the values: live[v] is the record the last        *)
(* 201 of a POST with body value v returned, while no DELETE has removed   *)
(* it since; gone holds the values v whose DELETE /strings/{v} returned    *)
(* 204 and which no POST with body value v has created again.  The         *)
(* request also records which kind of request the client sent (op), the    *)
(* value it named (subject), whether that value was live, and the store    *)
(* as it was when the request arrived (before).                            *)
(*                                                                         *)
(* inflight holds the invocations of fetch that run concurrently, each at  *)
(* one of its awaits on the store (pc) with the values its handler has     *)
(* bound so far; Spec serves requests one at a time and leaves it alone.   *)
(* analyzed holds a call of analyzeString on its own: the argument and,    *)
(* once the call has returned, the analysis.                               *)
(***************************************************************************)
NoResponse == Response(0, "none", "", <<>>, EmptyObject, "")

\* no request is being served
NoRequest ==
    [op |-> "none", method |-> "NONE", pathname |-> "", params |-> NoParams,
     body |-> NoBody, subject |-> "", wasLive |-> FALSE, before |-> <<>>]

\* analyzeString has not been called
NotAnalyzed == [value |-> "", analysis |-> <<>>]

\* the invocations of fetch that may be in progress at the same time
Invocations == {"first", "second"}

\* an invocation of fetch between its awaits.  record is the record POST
\* built, keys the key names of the list still to fetch and results the
\* records pushed so far.  overwrote says that the put of a POST found its
\* key present; seen holds the records and instants the key lists the
\* store has had, one after the other, since a listing request arrived.
Invocation(pc, op, value, hash, params, parsed, query) ==
    [pc |-> pc, op |-> op, value |-> value, hash |-> hash, params |-> params,
     parsed |-> parsed, query |-> query, analysis |-> <<>>,
     record |-> <<>>, keys |-> <<>>, results |-> <<>>, response |-> NoResponse,
     overwrote |-> FALSE, seen |-> {}, instants |-> {}]

NoInvocation == Invocation("idle", "none", "", 0, NoParams, EmptyObject, "")

Init ==
    /\ store = <<>>
    /\ clock = 0
    /\ request = NoRequest
    /\ response = NoResponse
    /\ calls = <<>>
    /\ live = EmptyObject
    /\ gone = {}
    /\ inflight = [i \in Invocations |-> NoInvocation]
    /\ analyzed = NotAnalyzed

Idle == request = NoRequest

Request(op, method, pathname, params, body, subject) ==
    [op |-> op, method |-> method, pathname |-> pathname, params |-> params,
     body |-> body, subject |-> subject, wasLive |-> subject \in DOMAIN live,
     before |-> store]

\* the values still live once the records of the keys removed are gone
StillLive(removed) == {v \in DOMAIN live : live[v].id \notin removed}

LiveAfter(req, out, kept) ==
    IF req.method = "POST" /\ out.response.status = 201
    THEN [v \in kept \cup {req.subject} |->
             IF v = req.subject THEN out.response.data[1] ELSE live[v]]
    ELSE [v \in kept |-> live[v]]

GoneAfter(req, out) ==
    IF req.method = "DELETE" /\ out.response.status = 204 THEN gone \cup {req.subject}
    ELSE IF req.method = "POST" /\ out.response.status = 201 THEN gone \ {req.subject}
    ELSE gone

\* the request req has been served with the outcome out
Deliver(req, out) ==
    /\ Cardinality(DOMAIN out.store) <= MaxRecords
    /\ store' = out.store
    /\ request' = req
    /\ response' = out.response
    /\ calls' = out.calls
    /\ live' = LiveAfter(req, out, StillLive(DOMAIN store \ DOMAIN out.store))
    /\ gone' = GoneAfter(req, out)
    /\ UNCHANGED <<clock, inflight, analyzed>>

\* one request, served from its first line to its response; requests are
\* served one at a time
Serve(op, method, pathname, params, body, subject) ==
    Deliver(Request(op, method, pathname, params, body, subject),
            Fetch(method, pathname, params, body, store, clock))

PostRequest(body) ==
    /\ Idle
    /\ Serve("post", "POST", "/strings", NoParams, body, body.value)

GetRequest(v) ==
    /\ Idle
    /\ Serve("get", "GET", "/strings/" \o encodeURIComponent(v), NoParams, NoBody, v)

DeleteRequest(v) ==
    /\ Idle
    /\ Serve("delete", "DELETE", "/strings/" \o encodeURIComponent(v), NoParams, NoBody, v)

ListRequest(params) ==
    /\ Idle
    /\ Serve("list", "GET", "/strings", params, NoBody, "")

NaturalLanguageRequest(q) ==
    /\ Idle
    /\ Serve("nl", "GET", "/strings/filter-by-natural-language",
             [name \in {"query"} |-> q], NoBody, "")

\* the response has been sent: the worker is ready for the next request
Complete ==
    /\ ~Idle
    /\ request' = NoRequest
    /\ response' = NoResponse
    /\ calls' = <<>>
    /\ UNCHANGED <<store, clock, live, gone, inflight, analyzed>>

\* time passes between requests
Tick ==
    /\ Idle
    /\ clock < MaxClock
    /\ clock' = clock + 1
    /\ UNCHANGED <<store, request, response, calls, live, gone, inflight, analyzed>>

Next ==
    \/ \E body \in Bodies : PostRequest(body)
    \/ \E v \in PathValues : GetRequest(v)
    \/ \E v \in PathValues : DeleteRequest(v)
    \/ \E params \in ParamSets : ListRequest(params)
    \/ \E q \in Queries : NaturalLanguageRequest(q)
    \/ Complete
    \/ Tick

Spec == Init /\ [][Next]_vars

\* the digest has no collision on the strings the requests hash
DigestInjective ==
    \A v, w \in HashedStrings : computeSHA256(v) = computeSHA256(w) => v = w

(***************************************************************************)
(* Concurrent invocations of fetch.  Every await on STRING_STORE is a      *)
(* step of its own: the call takes effect on the store at that step, and   *)
(* the synchronous code up to the next await (or the return) runs with     *)
(* it.  new Date() reads the clock after the get of POST has resolved,     *)
(* and the put takes effect later.  Steps of different invocations         *)
(* interleave freely.                                                      *)
(***************************************************************************)

\* the values the concurrent requests name, and their bodies and filters
ConcurrentValues == {"a", "ab"}

ConcurrentBodies ==
    {[json |-> TRUE, type |-> "string", value |-> v] : v \in ConcurrentValues}

ConcurrentParams == {NoParams}

ConcurrentQueries == {"strings containing the letter a"}

\* the records of the store in the order of its keys
Contents(st) == LoadRecords(st, KVList(st))

\* a listing request in progress sees the store st
Observe(inv, st) ==
    IF inv.pc \in {"list", "load"}
    THEN [inv EXCEPT !.seen = @ \cup {Contents(st)[k] : k \in 1..Len(Contents(st))},
                     !.instants = @ \cup {KVList(st)}]
    ELSE inv

\* invocation i moves to next, and the store becomes st
Step(i, next, st) ==
    /\ Cardinality(DOMAIN st) <= MaxRecords
    /\ store' = st
    /\ inflight' = [j \in Invocations |->
                       IF j = i THEN Observe(next, st) ELSE Observe(inflight[j], st)]
    /\ UNCHANGED <<clock, request, response, calls, live, gone, analyzed>>

\* return json(...): the invocation holds its response, and the values its
\* handler had bound are out of scope
Returned(inv, resp) ==
    [inv EXCEPT !.pc = "done", !.response = resp, !.value = "", !.hash = 0,
                !.analysis = <<>>, !.record = <<>>, !.keys = <<>>]

\* no listing request is in progress: listing requests write nothing, so
\* they are served one at a time without loss
NoListing == \A j \in Invocations : inflight[j].pc \notin {"list", "load"}

\* POST /strings, up to await env.STRING_STORE.get(id)
PostArrived(body, value) ==
    IF ~body.json \/ body.type # "string"
    THEN Returned(Invocation("idle", "post", "", 0, NoParams, EmptyObject, ""),
                  ErrorResponse("Invalid or missing 'value' field", 400))
    ELSE IF value = ""
    THEN Returned(Invocation("idle", "post", "", 0, NoParams, EmptyObject, ""),
                  ErrorResponse("Empty string not allowed", 400))
    ELSE [Invocation("get", "post", value, analyzeString(value).sha256_hash,
                     NoParams, EmptyObject, "")
             EXCEPT !.analysis = <<analyzeString(value)>>]

ArrivePost(i, body) ==
    /\ Idle
    /\ inflight[i].pc = "idle"
    /\ Step(i, PostArrived(body, SubmittedValue(body)), store)

\* const existing = await env.STRING_STORE.get(id); if (existing) return 409
PostChecked(inv, existing) ==
    IF AlreadyExists(existing)
    THEN Returned(inv, ErrorResponse("String already exists", 409))
    ELSE [inv EXCEPT !.pc = "record"]

AwaitExisting(i) ==
    /\ inflight[i].pc = "get"
    /\ Step(i, PostChecked(inflight[i], KVGet(store, inflight[i].hash)), store)

\* const record = { id, value, properties: analysis, created_at: new Date() }
BuildRecord(i) ==
    /\ inflight[i].pc = "record"
    /\ Step(i, [inflight[i] EXCEPT
                   !.pc = "put",
                   !.record = <<NewRecord(inflight[i].hash, inflight[i].value,
                                          inflight[i].analysis[1], clock)>>],
            store)

\* await env.STRING_STORE.put(id, JSON.stringify(record)); return json(record, 201)
PostWritten(inv, st) ==
    Returned([inv EXCEPT !.overwrote = inv.record[1].id \in DOMAIN st],
             RecordResponse(inv.record[1], 201))

AwaitPut(i) ==
    /\ inflight[i].pc = "put"
    /\ Step(i, PostWritten(inflight[i], store),
            KVPut(store, inflight[i].record[1].id, JSONStringify(inflight[i].record[1])))

\* DELETE /strings/{value}, up to await env.STRING_STORE.get(hash)
DeleteArrived(value) ==
    IF value = Null
    THEN Returned(Invocation("idle", "delete", "", 0, NoParams, EmptyObject, ""),
                  ErrorResponse("URI malformed", 500))
    ELSE Invocation("lookup", "delete", value[1], computeSHA256(value[1]),
                    NoParams, EmptyObject, "")

ArriveDelete(i, v) ==
    /\ Idle
    /\ inflight[i].pc = "idle"
    /\ Step(i, DeleteArrived(decodeURIComponent(encodeURIComponent(v))), store)

\* const data = await env.STRING_STORE.get(hash); if (!data) return 404
DeleteChecked(inv, data) ==
    IF data = Null
    THEN Returned(inv, ErrorResponse("String not found", 404))
    ELSE [inv EXCEPT !.pc = "delete"]

AwaitData(i) ==
    /\ inflight[i].pc = "lookup"
    /\ Step(i, DeleteChecked(inflight[i], KVGet(store, inflight[i].hash)), store)

\* await env.STRING_STORE.delete(hash); return new Response(null, { status: 204 })
AwaitDelete(i) ==
    /\ inflight[i].pc = "delete"
    /\ Step(i, Returned(inflight[i], Response(204, "empty", "", <<>>, EmptyObject, "")),
            KVDelete(store, inflight[i].hash))

\* GET /strings, up to await env.STRING_STORE.list()
ArriveList(i, params) ==
    /\ Idle
    /\ inflight[i].pc = "idle"
    /\ NoListing
    /\ Step(i, Invocation("list", "list", "", 0, params, EmptyObject, ""), store)

\* GET /strings/filter-by-natural-language, up to await env.STRING_STORE.list()
NaturalLanguageArrived(q, parsed) ==
    IF q = ""
    THEN Returned(Invocation("idle", "nl", "", 0, NoParams, EmptyObject, q),
                  ErrorResponse("Missing 'query' parameter", 400))
    ELSE IF parsed = Null
    THEN Returned(Invocation("idle", "nl", "", 0, NoParams, EmptyObject, q),
                  ErrorResponse("Unable to parse natural language query", 400))
    ELSE IF Conflicting(parsed[1])
    THEN Returned(Invocation("idle", "nl", "", 0, NoParams, EmptyObject, q),
                  ErrorResponse("Conflicting filters", 422))
    ELSE Invocation("list", "nl", "", 0, ToSearchParams(parsed[1]), parsed[1], q)

ArriveNaturalLanguage(i, q) ==
    /\ Idle
    /\ inflight[i].pc = "idle"
    /\ NoListing
    /\ Step(i, NaturalLanguageArrived(q, parseNaturalLanguageQuery(q)), store)

\* const filters = applyFilters(results, params); return json({ ... })
ListAnswered(inv, filters) ==
    Returned(inv, IF inv.op = "nl"
                  THEN ListResponse(filters.data, inv.parsed, inv.query)
                  ELSE ListResponse(filters.data, filters.applied, ""))

\* the loop over list.keys goes on while keys remain
Loading(inv) ==
    IF Len(inv.keys) = 0
    THEN ListAnswered(inv, applyFilters(inv.results, inv.params))
    ELSE [inv EXCEPT !.pc = "load"]

\* const list = await env.STRING_STORE.list()
AwaitList(i) ==
    /\ inflight[i].pc = "list"
    /\ Step(i, Loading([inflight[i] EXCEPT !.keys = KVList(store)]), store)

\* const recordStr = await env.STRING_STORE.get(key.name);
\* if (!recordStr) continue; results.push(JSON.parse(recordStr))
AwaitRecord(i) ==
    /\ inflight[i].pc = "load"
    /\ Step(i, Loading([inflight[i] EXCEPT
                           !.keys = Tail(@),
                           !.results = @ \o LoadRecord(KVGet(store, Head(inflight[i].keys)))]),
            store)

\* the response has been sent
Return(i) ==
    /\ inflight[i].pc = "done"
    /\ Step(i, NoInvocation, store)

ConcurrentNext ==
    \/ \E i \in Invocations, body \in ConcurrentBodies : ArrivePost(i, body)
    \/ \E i \in Invocations : AwaitExisting(i)
    \/ \E i \in Invocations : BuildRecord(i)
    \/ \E i \in Invocations : AwaitPut(i)
    \/ \E i \in Invocations, v \in ConcurrentValues : ArriveDelete(i, v)
    \/ \E i \in Invocations : AwaitData(i)
    \/ \E i \in Invocations : AwaitDelete(i)
    \/ \E i \in Invocations, params \in ConcurrentParams : ArriveList(i, params)
    \/ \E i \in Invocations, q \in ConcurrentQueries : ArriveNaturalLanguage(i, q)
    \/ \E i \in Invocations : AwaitList(i)
    \/ \E i \in Invocations : AwaitRecord(i)
    \/ \E i \in Invocations : Return(i)
    \/ Tick

ConcurrentSpec == Init /\ [][ConcurrentNext]_vars

(***************************************************************************)
(* analyzeString on its own, called on every string of at most MaxLength   *)
(* characters over a small alphabet.                                       *)
(***************************************************************************)
AnalyzerAlphabet == {"a", "b", "A", " ", "#"}

RECURSIVE StringsUpTo(_)
StringsUpTo(n) ==
    IF n = 0 THEN {""}
    ELSE StringsUpTo(n - 1)
             \cup {s \o c : s \in StringsUpTo(n - 1), c \in AnalyzerAlphabet}

AnalyzerInputs == StringsUpTo(MaxLength)

AnalyzerInit ==
    /\ store = <<>>
    /\ clock = 0
    /\ request = NoRequest
    /\ response = NoResponse
    /\ calls = <<>>
    /\ live = EmptyObject
    /\ gone = {}
    /\ inflight = [i \in Invocations |-> NoInvocation]
    /\ analyzed \in {[value |-> v, analysis |-> <<>>] : v \in AnalyzerInputs}

\* const analysis = await analyzeString(value)
Analyze ==
    /\ analyzed.analysis = <<>>
    /\ analyzed' = [analyzed EXCEPT !.analysis = <<analyzeString(analyzed.value)>>]
    /\ UNCHANGED <<store, clock, request, response, calls, live, gone, inflight>>

AnalyzerNext == Analyze

AnalyzerSpec == AnalyzerInit /\ [][AnalyzerNext]_vars

(***************************************************************************)
(* The claims.                                                             *)
(***************************************************************************)
StoredRecords == {JSONParse(store[k]) : k \in DOMAIN store}

HasCall(op) == \E i \in 1..Len(calls) : calls[i].op = op

\* C1: every stored record r is stored under the key r.id, and r.id =
\* r.properties.sha256_hash = SHA-256(r.value) for the value as stored; so no
\* two stored records have the same value.
C1_StoreKeyedByDigest ==
    /\ \A k \in DOMAIN store :
          LET r == JSONParse(store[k])
          IN  /\ r.id = k
              /\ r.properties.sha256_hash = k
              /\ Sha256Hex(r.value) = k
    /\ \A j, k \in DOMAIN store :
          JSONParse(store[j]).value = JSONParse(store[k]).value => j = k

\* a store of two records, one of them created from a value that was
\* trimmed, after another record has been deleted
C1_Witness ==
    /\ Cardinality(DOMAIN store) = 2
    /\ " a" \in DOMAIN live
    /\ gone # {}

\* C2: a POST /strings whose value is already stored returns 409 and leaves
\* the store as it was: the record, its created_at included, is not
\* overwritten and no put is issued.
C2_DuplicatePostRejected ==
    (/\ request.op = "post"
     /\ request.body.json /\ request.body.type = "string"
     /\ \E r \in {JSONParse(request.before[k]) : k \in DOMAIN request.before} :
            r.value = request.body.value)
    => /\ response.status = 409
       /\ store = request.before
       /\ ~HasCall("put")

\* a duplicate POST answered 409, sent at a later time than the one the
\* record was created at
C2_Witness ==
    /\ request.op = "post"
    /\ response.status = 409
    /\ \E r \in StoredRecords : r.value = request.body.value /\ r.created_at < clock

\* C3: after a POST with body value v returned 201 and with no DELETE
\* since, GET /strings/{v} returns 200 with the record the POST returned;
\* DELETE /strings/{v} then returns 204; and after it every GET /strings/{v}
\* returns 404 until v is POSTed again.
C3_Lifecycle ==
    /\ (request.op = "get" /\ request.subject \in DOMAIN live)
          => /\ response.status = 200
             /\ response.data = <<live[request.subject]>>
    /\ (request.op = "delete" /\ request.wasLive) => response.status = 204
    /\ (request.op = "get" /\ request.subject \in gone) => response.status = 404

\* the records GET /strings reads from the store st, in the order of list()
Listing(st) == LoadRecords(st, KVList(st))

\* a value of the type of the filter: a boolean, a non-negative decimal
\* integer, a single character
TypedValue(name, val) ==
    CASE name = "is_palindrome" -> val \in {"true", "false"}
      [] name = "contains_character" -> Len(val) = 1
      [] OTHER -> val # "" /\ DigitPrefix(val) = val

IsPredicateSet(params) ==
    /\ DOMAIN params \subseteq FilterNames
    /\ \A name \in DOMAIN params : TypedValue(name, params[name])

\* the predicates of the filter engine, as its contract states them
Satisfies(r, name, val) ==
    CASE name = "is_palindrome" -> r.properties.is_palindrome = (val = "true")
      [] name = "min_length" -> r.properties.length >= DecimalValue(val, 0)
      [] name = "max_length" -> r.properties.length <= DecimalValue(val, 0)
      [] name = "word_count" -> r.properties.word_count = DecimalValue(val, 0)
      [] name = "contains_character" -> Includes(ToLowerCase(r.value), ToLowerCase(val))

SatisfiesAll(r, params) == \A name \in DOMAIN params : Satisfies(r, name, params[name])

\* C4: applyFilters(R, P).data is the subsequence of R, in the order of R,
\* of the records that satisfy every predicate of P; with P empty it is R,
\* and with min_length = max_length = n the records of length n.
C4_FilterIsSubsequence ==
    (request.op = "list" /\ IsPredicateSet(request.params))
    => response.data =
           SelectSeq(Listing(request.before), LAMBDA r : SatisfiesAll(r, request.params))

SwapCase(c) ==
    IF IsUpper(c) THEN LowerChar(c)
    ELSE IF IsLower(c) THEN Chr(UpperLetters, IndexIn(LowerLetters, c))
    ELSE c

\* C5: contains_character is case-insensitive: a record is kept iff its
\* lower-cased value contains the lower-cased character, so 'A' and 'a'
\* give the same result.
C5_ContainsIgnoresCase ==
    (/\ request.op = "list"
     /\ DOMAIN request.params = {"contains_character"}
     /\ Len(request.params["contains_character"]) = 1)
    => LET c == request.params["contains_character"]
           R == Listing(request.before)
       IN  /\ response.data =
                  SelectSeq(R, LAMBDA r : Includes(ToLowerCase(r.value), ToLowerCase(c)))
           /\ response.data =
                  applyFilters(R, [name \in {"contains_character"} |-> SwapCase(c)]).data

\* the name/value pairs of a predicate set, as they are written in a URL
Numerals == <<"0", "1", "2", "3", "4", "5", "6", "7", "8", "9", "10", "11", "12">>

PairsOf(P) ==
    [name \in DOMAIN P |->
        CASE name = "is_palindrome" -> (IF P[name] THEN "true" ELSE "false")
          [] name = "contains_character" -> P[name]
          [] OTHER -> Numerals[P[name] + 1]]

QueryOf(req) == req.params["query"]

\* C6: for a query q the interpreter maps to the predicate set P, the data
\* and count of GET /strings/filter-by-natural-language?query=q are those of
\* GET /strings with the name/value pairs of P, on the same store.
C6_SamePredicateOnBothPaths ==
    (request.op = "nl" /\ parseNaturalLanguageQuery(QueryOf(request)) # Null)
    => LET P == parseNaturalLanguageQuery(QueryOf(request))[1]
           structured == GetStrings(PairsOf(P), request.before).response
       IN  /\ response.status = 200
           /\ response.data = structured.data
           /\ response.count = structured.count

\* a query with a numeric and a string predicate that keeps some records of
\* the store and drops others
C6_Witness ==
    /\ request.op = "nl"
    /\ QueryOf(request) = "single word strings longer than 1 characters containing the letter b"
    /\ response.count = 1
    /\ Cardinality(DOMAIN store) = 2

\* what each rule of the interpreter finds in the query q
RuleFacts(q) ==
    [single |-> singleWord(Trim(ToLowerCase(q))),
     palindrome |-> palindromic(Trim(ToLowerCase(q))),
     longer |-> longerMatch(Trim(ToLowerCase(q))),
     strict |-> containsLetterMatch(Trim(ToLowerCase(q))),
     loose |-> simpleContains(Trim(ToLowerCase(q)))]

RuleFactsTable == [q \in Queries |-> RuleFacts(q)]

SomeRuleFires(facts) ==
    \/ facts.single
    \/ facts.palindrome
    \/ facts.longer # Null
    \/ facts.strict # Null
    \/ facts.loose # Null

\* C7: the interpreter returns null iff none of its four rules fires, and
\* never an empty predicate set; the natural-language route answers a
\* non-empty query on which no rule fires with the 400 parse failure,
\* without reading or filtering the store.
C7_NullIffNoRule ==
    request.op = "nl"
    => LET q == QueryOf(request)
           parsed == parseNaturalLanguageQuery(q)
           fires == SomeRuleFires(RuleFactsTable[q])
       IN  /\ (parsed = Null) <=> ~fires
           /\ parsed # Null => DOMAIN parsed[1] # {}
           /\ (q # "" /\ ~fires)
                 => /\ response.status = 400
                    /\ response.error = "Unable to parse natural language query"
                    /\ calls = <<>>
                    /\ store = request.before

\* a query on which no rule fires, sent while the store holds records
C7_Witness ==
    /\ request.op = "nl"
    /\ QueryOf(request) = "the quick brown fox"
    /\ response.status = 400
    /\ store # <<>>

\* C8: GET /strings rejects a query with a parameter name outside the five
\* filter names with a 400, instead of ignoring it and returning a listing.
C8_UnknownNameRejected ==
    (request.op = "list" /\ ~(DOMAIN request.params \subseteq FilterNames))
    => response.status = 400

\* C9: GET /strings returns 400 and applies no filter when a filter has a
\* value outside its type; the filter engine only sees well-typed values.
C9_IllTypedRejected ==
    (/\ request.op = "list"
     /\ \E name \in DOMAIN request.params \cap FilterNames :
            ~TypedValue(name, request.params[name]))
    => /\ response.status = 400
       /\ ~HasCall("applyFilters")

InterpreterNames == {"word_count", "is_palindrome", "min_length", "contains_character"}

\* C10: the predicate set of a query is the union of word_count = 1 (single
\* word rule), is_palindrome = true (palindrome rule), min_length = N + 1
\* ('longer than N characters', so that only records longer than N pass) and
\* contains_character = c (the stricter 'the letter c' pattern first), and
\* has no other key.
C10_RulesIndependent ==
    request.op = "nl"
    => LET q == QueryOf(request)
           facts == RuleFactsTable[q]
           parsed == parseNaturalLanguageQuery(q)
           P == IF parsed = Null THEN EmptyObject ELSE parsed[1]
       IN  /\ DOMAIN P \subseteq InterpreterNames
           /\ ("word_count" \in DOMAIN P) <=> facts.single
           /\ "word_count" \in DOMAIN P => P["word_count"] = 1
           /\ ("is_palindrome" \in DOMAIN P) <=> facts.palindrome
           /\ "is_palindrome" \in DOMAIN P => P["is_palindrome"] = TRUE
           /\ ("min_length" \in DOMAIN P) <=> facts.longer # Null
           /\ "min_length" \in DOMAIN P
                 => /\ P["min_length"] = DecimalValue(facts.longer[1], 0) + 1
                    /\ \A i \in 1..Len(response.data) :
                          response.data[i].properties.length
                              > DecimalValue(facts.longer[1], 0)
           /\ ("contains_character" \in DOMAIN P)
                 <=> (facts.strict # Null \/ facts.loose # Null)
           /\ "contains_character" \in DOMAIN P
                 => P["contains_character"] =
                        IF facts.strict # Null THEN facts.strict[1] ELSE facts.loose[1]
           /\ q = "all single word palindromic strings"
                 => P = [word_count |-> 1, is_palindrome |-> TRUE]
           /\ q = "strings longer than 10 characters" => P = [min_length |-> 11]
           /\ q = "strings containing the letter z" => P = [contains_character |-> "z"]

\* a query on which all four rules fire, answered with the two records
\* longer than N
C10_Witness ==
    /\ request.op = "nl"
    /\ QueryOf(request)
          = "single word strings longer than 1 characters containing the letter b"
    /\ response.count = 2

\* the POSTs that have returned 201
Created(i) ==
    /\ inflight[i].pc = "done"
    /\ inflight[i].op = "post"
    /\ inflight[i].response.status = 201

\* the record a POST has returned with its 201
CreatedBy(i) == inflight[i].response.data[1]

\* the records the store holds for the value v
RecordsOf(v) == {k \in DOMAIN store : JSONParse(store[k]).value = v}

\* C11: the existence check and the put of POST /strings are two steps.  With
\* two concurrent POSTs of the same value there is an interleaving in which
\* both pass the check and both return 201, the later put overwriting the
\* record of the earlier one (C11_Witness reaches it); whatever the
\* interleaving, the store never holds two records for one value, and once
\* both POSTs have returned 201 it holds exactly one record for the value,
\* under the digest of the value: the record one of the two returned.
C11_RaceKeepsOneRecord ==
    /\ \A v \in ConcurrentValues : Cardinality(RecordsOf(v)) <= 1
    /\ \A i, j \in Invocations :
          (/\ i # j
           /\ Created(i)
           /\ Created(j)
           /\ CreatedBy(i).value = CreatedBy(j).value)
             => /\ RecordsOf(CreatedBy(i).value) = {computeSHA256(CreatedBy(i).value)}
                /\ JSONParse(store[computeSHA256(CreatedBy(i).value)])
                      \in {CreatedBy(i), CreatedBy(j)}

\* both POSTs of one value have returned 201; the put of the later one found
\* the record of the earlier one and replaced it by a record with another
\* created_at
C11_Witness ==
    \E i, j \in Invocations :
        /\ i # j
        /\ Created(i)
        /\ Created(j)
        /\ CreatedBy(i).value = CreatedBy(j).value
        /\ ~inflight[i].overwrote
        /\ inflight[j].overwrote
        /\ CreatedBy(i).created_at # CreatedBy(j).created_at
        /\ JSONParse(store[CreatedBy(j).id]) = CreatedBy(j)
        /\ Cardinality(DOMAIN store) = 1

RECURSIVE SumOver(_, _)
SumOver(f, keys) ==
    IF keys = {} THEN 0
    ELSE LET k == CHOOSE x \in keys : TRUE
         IN  f[k] + SumOver(f, keys \ {k})

\* the analysis analyzeString has returned
TheAnalysis == analyzed.analysis[1]

\* C12: for every input string the properties analyzeString computes are
\* mutually consistent: the counts of character_frequency_map sum to length,
\* and unique_characters is the number of keys of character_frequency_map,
\* also for strings with characters of two UTF-16 code units.
C12_PropertiesConsistent ==
    analyzed.analysis # <<>>
        => /\ SumOver(TheAnalysis.character_frequency_map,
                      DOMAIN TheAnalysis.character_frequency_map) = TheAnalysis.length
           /\ TheAnalysis.unique_characters
                 = Cardinality(DOMAIN TheAnalysis.character_frequency_map)

\* a request the natural-language route serves
OnNaturalLanguageRoute(req) ==
    /\ req.method = "GET"
    /\ StartsWith(StripTrailingSlashes(req.pathname), "/strings/filter-by-natural-language")

\* C13: the interpreter never emits max_length, so the min_length >
\* max_length check of the natural-language route never fires: no request on
\* that route is answered 422; each ends in 400 (missing query, or a query
\* no rule matches), 200 or 500.
C13_ConflictUnreachable ==
    /\ \A q \in Queries :
          parseNaturalLanguageQuery(q) # Null
              => /\ "max_length" \notin DOMAIN parseNaturalLanguageQuery(q)[1]
                 /\ ~Conflicting(parseNaturalLanguageQuery(q)[1])
    /\ OnNaturalLanguageRoute(request)
          => /\ response.status \in {200, 400, 500}
             /\ response.error # "Conflicting filters"
             /\ response.status = 400
                   => response.error \in {"Missing 'query' parameter",
                                          "Unable to parse natural language query"}

\* a query that sets min_length has gone through the conflict check and has
\* been answered with a listing
C13_Witness ==
    /\ OnNaturalLanguageRoute(request)
    /\ request.op = "nl"
    /\ QueryOf(request) = "strings longer than 2 characters"
    /\ "min_length" \in DOMAIN response.filters
    /\ response.status = 200
    /\ store # <<>>

\* the invocations serving GET /strings or the natural-language filter
IsListing(inv) == inv.op \in {"list", "nl"}

\* the key names of a sequence of records
KeysOf(records) == [k \in 1..Len(records) |-> records[k].id]

\* the invocation has gone one step further in its handler
Advanced(before, after) ==
    before.pc # after.pc \/ before.keys # after.keys \/ before.results # after.results

\* what holds of a listing request at every moment
ListingReadsOnly(inv) ==
    /\ \A k \in 1..Len(inv.results) : inv.results[k] \in inv.seen
    /\ \A k \in 1..Len(inv.results) - 1 : inv.results[k].id < inv.results[k + 1].id
    /\ \A k \in 1..Len(inv.keys) :
          \A n \in 1..Len(inv.results) : inv.results[n].id < inv.keys[k]
    /\ inv.pc = "done"
          => /\ inv.response.status = 200
             /\ inv.response.kind = "list"
             /\ \A k \in 1..Len(inv.response.data) : inv.response.data[k] \in inv.seen
             /\ inv.response.count <= Len(inv.results)

\* C14: a listing request (GET /strings or the natural-language filter)
\* reads the key list and then fetches the keys one by one.  Interleaved with
\* concurrent DELETE and POST requests, a key deleted between the list and
\* its get is skipped and the request still answers 200; every record of the
\* response was in the store at some moment during the request; and no step
\* of the request changes the store.  The response need not be the contents
\* of the store at any one instant (C14_Witness reaches such a response).
C14_ListingUnderInterleaving ==
    /\ [](\A i \in Invocations : IsListing(inflight[i]) => ListingReadsOnly(inflight[i]))
    /\ [][\A i \in Invocations :
             (IsListing(inflight[i]) /\ Advanced(inflight[i], inflight'[i]))
                 => store' = store]_vars

\* a listing has answered 200 after one of the keys it listed was deleted
\* before its get, and the records it returns are the contents of the store
\* at none of the instants of the request
C14_Witness ==
    \E i \in Invocations :
        /\ IsListing(inflight[i])
        /\ inflight[i].pc = "done"
        /\ inflight[i].response.status = 200
        /\ inflight[i].response.count = 1
        /\ \E keys \in inflight[i].instants : Len(keys) = 2
        /\ KeysOf(inflight[i].response.data) \notin inflight[i].instants

====
